---- MODULE Spec2Model ----
(***************************************************************************)
(* State-machine model of the MIDImyFACE relay (src/server.js): the        *)
(* session registry, the join/close handlers, director election, the       *)
(* message router, telemetry normalisation and the heartbeat.              *)
(***************************************************************************)
EXTENDS Integers, Sequences, FiniteSets, TLC

\* ------------------------------------------------------------------ bounds
MaxConns == 3
MaxIds == 3

Conns == 1..MaxConns

\* ------------------------------------------------------------ JS values
\* A JavaScript value of a telemetry field: t is the type tag, n the number
\* (for numbers), s the characters (for strings), b the boolean.
Undef == [t |-> "undefined", n |-> 0, s |-> <<>>, b |-> FALSE]
Null == [t |-> "null", n |-> 0, s |-> <<>>, b |-> FALSE]
NaN == [t |-> "NaN", n |-> 0, s |-> <<>>, b |-> FALSE]
Num(k) == [t |-> "number", n |-> k, s |-> <<>>, b |-> FALSE]
Str(cs) == [t |-> "string", n |-> 0, s |-> cs, b |-> FALSE]
Bool(x) == [t |-> "boolean", n |-> 0, s |-> <<>>, b |-> x]

Digits == {"0", "1", "2", "3", "4", "5", "6", "7", "8", "9"}

DigitVal(ch) ==
  CASE ch = "0" -> 0 [] ch = "1" -> 1 [] ch = "2" -> 2 [] ch = "3" -> 3
    [] ch = "4" -> 4 [] ch = "5" -> 5 [] ch = "6" -> 6 [] ch = "7" -> 7
    [] ch = "8" -> 8 [] ch = "9" -> 9

RECURSIVE DecimalVal(_, _)
\* value of the decimal digits cs, read left to right with accumulator acc
DecimalVal(cs, acc) ==
  IF cs = <<>> THEN acc ELSE DecimalVal(Tail(cs), acc * 10 + DigitVal(Head(cs)))

\* unary plus (ToNumber): +undefined is NaN, +null is 0, +true is 1, +"" is 0,
\* a string of decimal digits is its value, any other string is NaN
ToNumber(x) ==
  CASE x.t = "undefined" -> NaN
    [] x.t = "null" -> Num(0)
    [] x.t = "NaN" -> NaN
    [] x.t = "number" -> x
    [] x.t = "boolean" -> Num(IF x.b THEN 1 ELSE 0)
    [] x.t = "string" ->
         IF x.s = <<>> THEN Num(0)
         ELSE IF \A i \in 1..Len(x.s) : x.s[i] \in Digits THEN Num(DecimalVal(x.s, 0))
         ELSE NaN

\* ToBoolean: undefined, null, NaN, 0, "" and false are falsy
Truthy(x) ==
  CASE x.t = "undefined" -> FALSE
    [] x.t = "null" -> FALSE
    [] x.t = "NaN" -> FALSE
    [] x.t = "number" -> x.n # 0
    [] x.t = "boolean" -> x.b
    [] x.t = "string" -> x.s # <<>>

\* a || b
OrElse(a, b) == IF Truthy(a) THEN a ELSE b

\* how JSON.stringify writes a property value: undefined is left out of the
\* object, NaN is written as null
Stringify(x) == IF x.t = "NaN" THEN Null ELSE x

\* ------------------------------------------------------------ the state
VARIABLES
  RELAY_PASSWORD,  \* the configured relay-wide password ("" = none)
  sessions,        \* registry: session id -> [clients, director, participants]
  rs,              \* per connection: "none" | "open" | "closing" | "dead" | "closed"
  isAlive,         \* ws.isAlive
  query,           \* query.session of the upgrade request ("" = absent)
  wsId,            \* ws._id (0 = undefined)
  wsSid,           \* ws._sid
  wsName,          \* ws._name
  nextId,          \* number of ids crypto.randomUUID() has handed out
  sent,            \* the frames delivered by the last event, in order
  lastEv,          \* the last event: [op, c, msg]
  missed,          \* history: heartbeat ticks since the connection last answered
  lastRole         \* history: the role of the last role frame delivered to the
                   \* connection ("" = none yet), where it is kept

\* ws._role and ws._client_uuid are written by join and read nowhere: they are
\* not part of the state.
vars == <<RELAY_PASSWORD, sessions, rs, isAlive, query, wsId, wsSid, wsName,
          nextId, sent, lastEv, missed, lastRole>>

NoConn == 0
Undefined == "<undefined>"
NoMsg == [type |-> "<none>"]

\* ------------------------------------------------------------ helpers
\* ws.readyState: 1 is OPEN, 2 CLOSING, 3 CLOSED
OPEN == 1
readyState(r, c) ==
  CASE r[c] = "open" -> 1
    [] r[c] \in {"closing", "dead"} -> 2
    [] r[c] = "closed" -> 3
    [] OTHER -> 0

InSeq(x, q) == \E i \in 1..Len(q) : q[i] = x
SeqSet(q) == {q[i] : i \in 1..Len(q)}

\* Set.prototype.add / delete on an insertion-ordered set
SetAdd(q, x) == IF InSeq(x, q) THEN q ELSE Append(q, x)
SetDelete(q, x) == SelectSeq(q, LAMBDA y : y # x)

\* Map.prototype.set on the insertion-ordered participants map
MapSet(ps, rec) ==
  IF \E i \in 1..Len(ps) : ps[i].id = rec.id
  THEN [i \in 1..Len(ps) |-> IF ps[i].id = rec.id THEN rec ELSE ps[i]]
  ELSE Append(ps, rec)

\* json(ws, obj): ws.send delivers only on an OPEN socket; a failure is swallowed
json(r, out, c, obj) ==
  IF readyState(r, c) = OPEN THEN Append(out, [to |-> c, msg |-> obj]) ELSE out

RECURSIVE forEachSend(_, _, _, _)
forEachSend(r, out, cs, obj) ==
  IF cs = <<>> THEN out
  ELSE forEachSend(r,
         IF readyState(r, Head(cs)) = OPEN THEN json(r, out, Head(cs), obj) ELSE out,
         Tail(cs), obj)

broadcast(r, out, session, obj) == forEachSend(r, out, session.clients, obj)

NewSession == [clients |-> <<>>, director |-> NoConn, participants |-> <<>>]

\* new Map(): the empty registry
NoSessions == [x \in {} |-> NewSession]

\* sessions.delete(id)
MapDelete(reg, id) == [x \in DOMAIN reg \ {id} |-> reg[x]]

\* a getSession that makes a new Session object on every call
getSessionAlwaysNew(reg, id) ==
  [x \in DOMAIN reg \cup {id} |-> IF x = id THEN NewSession ELSE reg[x]]

getSession(reg, id) ==
  IF id \in DOMAIN reg THEN reg
  ELSE [x \in DOMAIN reg \cup {id} |-> IF x = id THEN NewSession ELSE reg[x]]

\* returns the session and the outbox after election
assignDirector(r, out, session) ==
  IF session.director = NoConn
  THEN LET first == IF session.clients = <<>> THEN NoConn ELSE Head(session.clients)
       IN [s |-> [session EXCEPT !.director = first],
           out |-> IF first # NoConn
                   THEN json(r, out, first, [type |-> "role", role |-> "director"])
                   ELSE out]
  ELSE [s |-> session, out |-> out]

\* a roster that leaves the disconnected participants out
presenceMsgConnectedOnly(sid, session) ==
  [type |-> "presence", sessionId |-> sid,
   participants |-> SelectSeq(session.participants, LAMBDA p : p.connected)]

presenceMsg(sid, session) ==
  [type |-> "presence", sessionId |-> sid, participants |-> session.participants]

\* the role history is kept from InitRole on; from Init it stays switched off
NoRoleHistory == [c \in Conns |-> "<off>"]

\* history of the role frames: the role each connection was last told, after the
\* frames f of an event were delivered
RECURSIVE lastRoleAfter(_, _)
lastRoleAfter(told, f) ==
  IF f = <<>> \/ told = NoRoleHistory THEN told
  ELSE lastRoleAfter(IF Head(f).msg.type = "role"
                     THEN [told EXCEPT ![Head(f).to] = Head(f).msg.role]
                     ELSE told,
                     Tail(f))

\* ------------------------------------------------------------ Init
Passwords == {"", "pw"}

Init ==
  /\ RELAY_PASSWORD \in Passwords
  /\ sessions = NoSessions
  /\ rs = [c \in Conns |-> "none"]
  /\ isAlive = [c \in Conns |-> FALSE]
  /\ query = [c \in Conns |-> ""]
  /\ wsId = [c \in Conns |-> 0]
  /\ wsSid = [c \in Conns |-> Undefined]
  /\ wsName = [c \in Conns |-> Undefined]
  /\ nextId = 0
  /\ sent = <<>>
  /\ lastEv = [op |-> "init", c |-> NoConn, msg |-> NoMsg]
  /\ missed = [c \in Conns |-> 0]
  /\ lastRole = NoRoleHistory

\* ------------------------------------------------------------ inputs
\* "" stands for an absent (or empty, equally falsy) string property.
QueryVals == {""}
JoinMsg(sid1, sid2, name, role, pwd) ==
  [parse |-> "object", type |-> "join", session_id |-> sid1, sessionId |-> sid2, name |-> name,
   role |-> role, password |-> pwd]
JoinMsgs ==
  { JoinMsg("A", "", "Ann", "", "pw"),
    JoinMsg("", "A", "", "director", "pw"),
    JoinMsg("", "", "", "host", "pw"),
    JoinMsg("A", "", "Ann", "", ""),
    JoinMsg("", "A", "", "director", "bad") }

\* ------------------------------------------------------------ upgrade
\* wss.handleUpgrade callback: startHeartbeat(ws) and the handlers are installed.
\* Connections are numbered in the order they are upgraded.
upgrade(c, q) ==
  /\ rs[c] = "none"
  /\ \A d \in Conns : d < c => rs[d] # "none"
  /\ rs' = [rs EXCEPT ![c] = "open"]
  /\ isAlive' = [isAlive EXCEPT ![c] = TRUE]
  /\ query' = [query EXCEPT ![c] = q]
  /\ sent' = <<>>
  /\ lastEv' = [op |-> "upgrade", c |-> c, msg |-> NoMsg]
  /\ UNCHANGED <<RELAY_PASSWORD, sessions, wsId, wsSid, wsName, nextId, missed,
                 lastRole>>

\* ------------------------------------------------------------ join
joinSid(c, data) ==
  IF data.session_id # "" THEN data.session_id
  ELSE IF data.sessionId # "" THEN data.sessionId
  ELSE IF query[c] # "" THEN query[c]
  ELSE "default"

joinName(data) == IF data.name # "" THEN data.name ELSE "Performer"

joinRole(data) ==
  IF data.role = "director" \/ data.role = "host" THEN "director" ELSE "performer"

\* a password check that lets a join without a password through
badPasswordUnlessMissing(data) ==
  RELAY_PASSWORD # "" /\ data.password # "" /\ data.password # RELAY_PASSWORD

\* the password check of join: TRUE when the join is rejected
badPassword(data) == RELAY_PASSWORD # "" /\ data.password # RELAY_PASSWORD

\* a join that puts every joiner through the election, whatever its role hint
joinElectNoHint(r, session, c, role) ==
  LET ad == assignDirector(r, <<>>, session)
  IN [s |-> ad.s,
      out |-> IF ad.s.director # c
              THEN json(r, ad.out, c, [type |-> "role", role |-> "performer"])
              ELSE ad.out]

\* lines 65-71 of join: the director branch, else election and the performer role
joinElect(r, session, c, role) ==
  IF role = "director"
  THEN [s |-> [session EXCEPT !.director = c],
        out |-> json(r, <<>>, c, [type |-> "role", role |-> "director"])]
  ELSE LET ad == assignDirector(r, <<>>, session)
       IN [s |-> ad.s,
           out |-> IF ad.s.director # c
                   THEN json(r, ad.out, c, [type |-> "role", role |-> "performer"])
                   ELSE ad.out]

\* lines 55-73 of join on the registry: the session after the join and the frames sent
joinSession(r, reg, c, sid, id, name, role) ==
  LET reg1 == getSession(reg, sid)
      s1 == [reg1[sid] EXCEPT !.clients = SetAdd(@, c)]
      s2 == [s1 EXCEPT !.participants =
                MapSet(@, [id |-> id, name |-> name, connected |-> TRUE])]
      el == joinElect(r, s2, c, role)
  IN [reg |-> [reg1 EXCEPT ![sid] = el.s],
      out |-> broadcast(r, el.out, el.s, presenceMsg(sid, el.s))]

join(c, data) ==
  LET sid == joinSid(c, data)
      name == joinName(data)
      role == joinRole(data)
  IN IF badPassword(data)
     THEN \* ws.close(1008, "bad password"): an OPEN socket sends the close frame
          \* and is CLOSING; on any other socket the call does nothing
          /\ rs' = [rs EXCEPT ![c] = IF @ = "open" THEN "closing" ELSE @]
          /\ sent' = IF rs[c] = "open"
                     THEN <<[to |-> c, msg |-> [type |-> "close", code |-> 1008]]>>
                     ELSE <<>>
          /\ UNCHANGED <<sessions, wsId, wsSid, wsName, nextId>>
     ELSE /\ nextId < MaxIds
          /\ LET id == nextId + 1
                 j == joinSession(rs, sessions, c, sid, id, name, role)
             IN /\ sessions' = j.reg
                /\ sent' = j.out
                /\ wsId' = [wsId EXCEPT ![c] = id]
          /\ nextId' = nextId + 1
          /\ wsSid' = [wsSid EXCEPT ![c] = sid]
          /\ wsName' = [wsName EXCEPT ![c] = name]
          /\ UNCHANGED rs

\* ------------------------------------------------------------ close
\* closeSession that leaves the director slot alone when the director closes
closeSessionKeepDirector(r, session, sid, c, id) ==
  LET s1 == [session EXCEPT !.clients = SetDelete(@, c)]
      s2 == [s1 EXCEPT !.participants =
               [i \in 1..Len(@) |->
                  IF @[i].id = id THEN [@[i] EXCEPT !.connected = FALSE] ELSE @[i]]]
  IN [s |-> s2, out |-> broadcast(r, <<>>, s2, presenceMsg(sid, s2))]

\* closeSession that clears the director slot and does not run the election again
closeSessionNoElection(r, session, sid, c, id) ==
  LET s1 == [session EXCEPT !.clients = SetDelete(@, c)]
      s2 == [s1 EXCEPT !.participants =
               [i \in 1..Len(@) |->
                  IF @[i].id = id THEN [@[i] EXCEPT !.connected = FALSE] ELSE @[i]]]
      s3 == IF s2.director = c THEN [s2 EXCEPT !.director = NoConn] ELSE s2
  IN [s |-> s3, out |-> broadcast(r, <<>>, s3, presenceMsg(sid, s3))]

\* lines 116-124 of close on one session: the session after it and the frames sent
closeSession(r, session, sid, c, id) ==
  LET s1 == [session EXCEPT !.clients = SetDelete(@, c)]
      s2 == [s1 EXCEPT !.participants =
               [i \in 1..Len(@) |->
                  IF @[i].id = id THEN [@[i] EXCEPT !.connected = FALSE] ELSE @[i]]]
      ad == IF s2.director = c
            THEN assignDirector(r, <<>>, [s2 EXCEPT !.director = NoConn])
            ELSE [s |-> s2, out |-> <<>>]
  IN [s |-> ad.s, out |-> broadcast(r, ad.out, ad.s, presenceMsg(sid, ad.s))]

close(r, reg, c, sid, id) ==
  IF sid \notin DOMAIN reg THEN [reg |-> reg, out |-> <<>>]
  ELSE LET cs == closeSession(r, reg[sid], sid, c, id)
       IN [reg |-> IF Len(cs.s.clients) = 0 THEN MapDelete(reg, sid)
                   ELSE [reg EXCEPT ![sid] = cs.s],
           out |-> cs.out]

\* the transport of an OPEN socket starts closing (readyState CLOSING, no further
\* frames come in): the peer sent a close frame, the socket failed, or the
\* heartbeat called ws.terminate()
drop(c) ==
  /\ rs[c] = "open"
  /\ rs' = [rs EXCEPT ![c] = "dead"]
  /\ sent' = <<>>
  /\ lastEv' = [op |-> "drop", c |-> c, msg |-> NoMsg]
  /\ UNCHANGED <<RELAY_PASSWORD, sessions, isAlive, query, wsId, wsSid, wsName, nextId,
                 missed, lastRole>>

\* ws.on("close"): the socket is CLOSED when the handler runs
onClose(c) ==
  /\ rs[c] \in {"closing", "dead"}
  /\ rs' = [rs EXCEPT ![c] = "closed"]
  /\ LET k == close(rs', sessions, c, wsSid[c], wsId[c])
     IN /\ sessions' = k.reg
        /\ sent' = k.out
  /\ lastEv' = [op |-> "close", c |-> c, msg |-> NoMsg]
  /\ lastRole' = lastRoleAfter(lastRole, sent')
  /\ UNCHANGED <<RELAY_PASSWORD, isAlive, query, wsId, wsSid, wsName, nextId, missed>>

\* ------------------------------------------------------------ relay
\* a telemetry sub-object as received: obj is FALSE when the property is absent
NoteIn(on, note, vel, chIn) ==
  [obj |-> TRUE, on |-> on, note |-> note, vel |-> vel, chIn |-> chIn]
NoNoteIn == [obj |-> FALSE, on |-> Undef, note |-> Undef, vel |-> Undef, chIn |-> Undef]
CcIn(channel, cc, value) ==
  [obj |-> TRUE, channel |-> channel, cc |-> cc, value |-> value]
NoCcIn == [obj |-> FALSE, channel |-> Undef, cc |-> Undef, value |-> Undef]

\* the sub-objects as written on the wire: present is FALSE when the property is
\* left out, and a field that is Undef is left out of the sub-object
NoNoteOut == [present |-> FALSE, on |-> FALSE, note |-> Undef, vel |-> Undef, chIn |-> Undef]
NoCcOut == [present |-> FALSE, channel |-> Undef, cc |-> Undef, value |-> Undef]

\* msg.note of relayTelemetry, as JSON.stringify writes it
normNote(n) ==
  IF ~n.obj THEN NoNoteOut
  ELSE [present |-> TRUE,
        on |-> Truthy(n.on),
        note |-> Stringify(OrElse(ToNumber(n.note), Num(0))),
        vel |-> Stringify(OrElse(ToNumber(n.vel), Num(0))),
        chIn |-> IF Truthy(n.chIn) THEN Stringify(ToNumber(n.chIn)) ELSE Undef]

\* msg.cc of relayTelemetry, as JSON.stringify writes it
normCc(c) ==
  IF ~c.obj THEN NoCcOut
  ELSE [present |-> TRUE,
        channel |-> Stringify(OrElse(ToNumber(c.channel), Num(1))),
        cc |-> Stringify(OrElse(ToNumber(c.cc), Num(11))),
        value |-> Stringify(OrElse(ToNumber(c.value), Num(0)))]

\* the frames relayTelemetry sends
relayTelemetry(r, reg, sid, from, name, data) ==
  IF sid \notin DOMAIN reg THEN <<>>
  ELSE forEachSend(r, <<>>, reg[sid].clients,
         [type |-> "telemetry", from |-> from, name |-> name,
          note |-> normNote(data.note), cc |-> normCc(data.cc)])

\* relayEvent that falls back to the "default" session, as join does, when the
\* connection has no session
relayEventDefaultSession(r, reg, sid, from, name, type, data) ==
  LET sid2 == IF sid = Undefined THEN "default" ELSE sid
  IN IF sid2 \notin DOMAIN reg THEN <<>>
     ELSE forEachSend(r, <<>>, reg[sid2].clients,
            [type |-> type, from |-> from, name |-> name, data |-> data,
             tServer |-> "now"])

\* the frames relayEvent sends; tServer stands for Date.now()
relayEvent(r, reg, sid, from, name, type, data) ==
  IF sid \notin DOMAIN reg THEN <<>>
  ELSE forEachSend(r, <<>>, reg[sid].clients,
         [type |-> type, from |-> from, name |-> name, data |-> data,
          tServer |-> "now"])

\* a router that also relays frames of an unknown type
PassThroughTypesAndUnknown ==
  {"midi/cc", "midi/note_on", "midi/note_off", "gesture/update",
   "percussion/trigger", "envelope/update", "mode/change", "bogus"}

PassThroughTypes ==
  {"midi/cc", "midi/note_on", "midi/note_off", "gesture/update",
   "percussion/trigger", "envelope/update", "mode/change"}

\* ------------------------------------------------------------ router
\* ws.on("message"): raw.parse is "error" when JSON.parse throws, "primitive" when
\* it yields a value that is falsy or no object, "object" otherwise
onMessage(c, raw) ==
  /\ rs[c] \in {"open", "closing"}
  /\ lastEv' = [op |-> "message", c |-> c, msg |-> raw]
  /\ UNCHANGED <<RELAY_PASSWORD, isAlive, query, missed>>
  /\ IF raw.parse # "object"
     THEN /\ sent' = <<>>
          /\ UNCHANGED <<sessions, rs, wsId, wsSid, wsName, nextId>>
     ELSE IF raw.type = "join" THEN join(c, raw)
     ELSE /\ UNCHANGED <<sessions, rs, wsId, wsSid, wsName, nextId>>
          /\ sent' =
               IF raw.type = "telemetry"
               THEN relayTelemetry(rs, sessions, wsSid[c], wsId[c], wsName[c], raw)
               ELSE IF raw.type \in PassThroughTypes
               THEN relayEvent(rs, sessions, wsSid[c], wsId[c], wsName[c], raw.type,
                               IF raw.data # "" THEN raw.data ELSE "{}")
               ELSE IF raw.type = "system/ping" \/ raw.type = "ping"
               THEN json(rs, <<>>, c,
                         [type |-> IF raw.type = "ping" THEN "pong" ELSE "system/pong",
                          tServer |-> "now"])
               ELSE <<>>
  /\ lastRole' = lastRoleAfter(lastRole, sent')

\* ------------------------------------------------------------ inputs of Spec
\* Spec is the relay without its timer: membership events and one message of
\* each kind the router knows. What the heartbeat does to a session, to
\* terminate a connection, is a drop.
TelemetryMsg(note, cc) ==
  [parse |-> "object", type |-> "telemetry", note |-> note, cc |-> cc]
EventMsg(type, data) == [parse |-> "object", type |-> type, data |-> data]
PingMsg(type) == [parse |-> "object", type |-> type]
\* a frame that is dropped: unparseable, not an object, or of no known type
OtherFrames ==
  { [parse |-> "error", type |-> ""], [parse |-> "primitive", type |-> ""],
    [parse |-> "object", type |-> ""],
    [parse |-> "object", type |-> "bogus", data |-> "d"] }

TelemetryMsgs ==
  { TelemetryMsg(NoteIn(Bool(TRUE), Num(60), Str(<<"7", "7">>), Num(0)),
                 CcIn(Num(0), Undef, Num(5))) }
EventMsgs == { EventMsg("midi/cc", "d") }
PingMsgs == { PingMsg("ping") }
DropMsgs == { [parse |-> "object", type |-> "bogus", data |-> "d"] }

Next ==
  \/ \E c \in Conns, q \in QueryVals : upgrade(c, q)
  \/ \E c \in Conns, m \in JoinMsgs : onMessage(c, m)
  \/ \E c \in Conns, m \in TelemetryMsgs : onMessage(c, m)
  \/ \E c \in Conns, m \in EventMsgs : onMessage(c, m)
  \/ \E c \in Conns, m \in PingMsgs : onMessage(c, m)
  \/ \E c \in Conns, m \in DropMsgs : onMessage(c, m)
  \/ \E c \in Conns : drop(c)
  \/ \E c \in Conns : onClose(c)

Spec == Init /\ [][Next]_vars

\* ------------------------------------------------------------ the router alone
\* Two connections, two sessions and every message type of the router.
RouterConns == {c \in Conns : c <= 2}
RouterQueryVals == {"", "A"}
RouterJoinMsgs ==
  { JoinMsg("A", "", "Ann", "", "pw"), JoinMsg("", "", "", "host", "pw") }
RouterTelemetryMsgs ==
  { TelemetryMsg(NoteIn(Bool(TRUE), Num(60), Num(100), Num(1)), NoCcIn),
    TelemetryMsg(NoNoteIn, CcIn(Num(1), Num(7), Num(64))) }
RouterEventMsgs == { EventMsg(t, d) : t \in PassThroughTypes, d \in {"", "d"} }
RouterPingMsgs == { PingMsg("ping"), PingMsg("system/ping") }

NextRouter ==
  \/ \E c \in RouterConns, q \in RouterQueryVals : upgrade(c, q)
  \/ \E c \in RouterConns, m \in RouterJoinMsgs : onMessage(c, m)
  \/ \E c \in RouterConns, m \in RouterTelemetryMsgs : onMessage(c, m)
  \/ \E c \in RouterConns, m \in RouterEventMsgs : onMessage(c, m)
  \/ \E c \in RouterConns, m \in RouterPingMsgs : onMessage(c, m)
  \/ \E c \in RouterConns, m \in OtherFrames : onMessage(c, m)
  \/ \E c \in RouterConns : drop(c)
  \/ \E c \in RouterConns : onClose(c)

SpecRouter == Init /\ [][NextRouter]_vars

\* ------------------------------------------------------------ heartbeat
\* history of the probes: one more tick has passed without an answer from each
\* connection of wss.clients (counted up to MaxMissed)
MaxMissed == 2
missedAfterTick ==
  [c \in Conns |->
     IF rs[c] \in {"open", "closing", "dead"} /\ missed[c] < MaxMissed
     THEN missed[c] + 1 ELSE missed[c]]

\* a monitor that never terminates
terminatedNone == {}

\* the connections a tick terminates: "if (!ws.isAlive) return ws.terminate()"
terminated == {c \in Conns : rs[c] \in {"open", "closing"} /\ ~isAlive[c]}

\* the setInterval callback over wss.clients (the connections not yet CLOSED):
\* one that did not answer the last probe is terminated, the others are marked
\* unconfirmed and probed
tick ==
  /\ \E c \in Conns : rs[c] \in {"open", "closing", "dead"}
  /\ rs' = [c \in Conns |-> IF c \in terminated THEN "dead" ELSE rs[c]]
  /\ isAlive' = [c \in Conns |->
                   IF rs[c] \in {"open", "closing", "dead"} THEN FALSE ELSE isAlive[c]]
  /\ sent' = <<>>
  /\ lastEv' = [op |-> "tick", c |-> NoConn,
                msg |-> [type |-> "<tick>", terminated |-> terminated]]
  /\ missed' = missedAfterTick
  /\ UNCHANGED <<RELAY_PASSWORD, sessions, query, wsId, wsSid, wsName, nextId, lastRole>>

\* ws.on("pong"): the peer answered a probe
pong(c) ==
  /\ rs[c] \in {"open", "closing"}
  /\ isAlive' = [isAlive EXCEPT ![c] = TRUE]
  /\ sent' = <<>>
  /\ lastEv' = [op |-> "pong", c |-> c, msg |-> NoMsg]
  /\ missed' = [missed EXCEPT ![c] = 0]
  /\ UNCHANGED <<RELAY_PASSWORD, sessions, rs, query, wsId, wsSid, wsName, nextId,
                 lastRole>>

\* the relay with its heartbeat: joins, closes and the liveness monitor
LiveJoinMsgs ==
  { JoinMsg("A", "", "Ann", "", "pw"), JoinMsg("", "A", "", "director", "pw") }

NextLive ==
  \/ \E c \in RouterConns, q \in QueryVals : upgrade(c, q)
  \/ \E c \in RouterConns, m \in LiveJoinMsgs : onMessage(c, m)
  \/ \E c \in RouterConns : drop(c)
  \/ \E c \in RouterConns : onClose(c)
  \/ \E c \in RouterConns : pong(c)
  \/ tick

SpecLive == Init /\ [][NextLive]_vars

\* ------------------------------------------------------------ role history
\* Two connections, two sessions, joins, drops and closes, with the history of
\* the role frames kept.
InitRole ==
  /\ RELAY_PASSWORD \in Passwords
  /\ sessions = NoSessions
  /\ rs = [c \in Conns |-> "none"]
  /\ isAlive = [c \in Conns |-> FALSE]
  /\ query = [c \in Conns |-> ""]
  /\ wsId = [c \in Conns |-> 0]
  /\ wsSid = [c \in Conns |-> Undefined]
  /\ wsName = [c \in Conns |-> Undefined]
  /\ nextId = 0
  /\ sent = <<>>
  /\ lastEv = [op |-> "init", c |-> NoConn, msg |-> NoMsg]
  /\ missed = [c \in Conns |-> 0]
  /\ lastRole = [c \in Conns |-> ""]

NextRole ==
  \/ \E c \in RouterConns, q \in QueryVals : upgrade(c, q)
  \/ \E c \in RouterConns, m \in RouterJoinMsgs : onMessage(c, m)
  \/ \E c \in RouterConns : drop(c)
  \/ \E c \in RouterConns : onClose(c)

SpecRole == InitRole /\ [][NextRole]_vars

\* a terminated or closing socket emits its 'close' event: the handler installed
\* by ws.on("close") is eventually run by the event loop
SpecLiveFair == SpecLive /\ \A c \in RouterConns : WF_vars(onClose(c))

\* ------------------------------------------------ telemetry normalisation alone
\* One connection that joins and sends telemetry whose fields range over JsVals.
JsVals == {Undef, Num(0), Num(7), Str(<<"7", "7">>), Str(<<"x">>)}
JsOnVals == {Undef, Bool(TRUE), Bool(FALSE), Str(<<"x">>)}
NormTelemetryMsgs ==
  { TelemetryMsg(NoteIn(on, note, vel, chIn), NoCcIn) :
      on \in JsOnVals, note \in JsVals, vel \in JsVals, chIn \in JsVals }
  \cup { TelemetryMsg(NoNoteIn, CcIn(channel, cc, value)) :
           channel \in JsVals, cc \in JsVals, value \in JsVals }
  \cup { TelemetryMsg(NoNoteIn, NoCcIn),
         TelemetryMsg(NoteIn(Bool(TRUE), Num(7), Undef, Undef),
                      CcIn(Num(7), Num(7), Num(7))) }

NextNorm ==
  \/ upgrade(1, "")
  \/ (wsSid[1] = Undefined /\ onMessage(1, JoinMsg("A", "", "Ann", "", "pw")))
  \/ \E m \in NormTelemetryMsgs : onMessage(1, m)

SpecNorm == Init /\ [][NextNorm]_vars

\* ------------------------------------------------------------ claims
IsRole(f, c, role) == f.to = c /\ f.msg.type = "role" /\ f.msg.role = role
Sent(c, role) == \E i \in 1..Len(sent) : IsRole(sent[i], c, role)

\* C1: in every reachable state the director of each session of the registry is
\* unset or a member of that session's connection set.
C1_DirectorUnsetOrMember ==
  \A sid \in DOMAIN sessions :
    \/ sessions[sid].director = NoConn
    \/ InSeq(sessions[sid].director, sessions[sid].clients)

\* C1 witness: a director has just closed, its session lives on and another
\* member of the connection set holds the slot.
C1_Witness ==
  /\ lastEv.op = "close"
  /\ wsSid[lastEv.c] \in DOMAIN sessions
  /\ LET s == sessions[wsSid[lastEv.c]]
     IN /\ s.director # NoConn
        /\ Sent(s.director, "director")
        /\ InSeq(s.director, s.clients)
        /\ ~InSeq(lastEv.c, s.clients)

\* C2: every session of the registry with a non-empty connection set has its
\* director slot set, to one connection.
C2_NonEmptyHasDirector ==
  \A sid \in DOMAIN sessions :
    Len(sessions[sid].clients) > 0 => sessions[sid].director \in Conns

\* C2 witness: the director of a session with three members has closed and the
\* two that remain have a director.
C2_Witness ==
  /\ lastEv.op = "close"
  /\ \E sid \in DOMAIN sessions :
       /\ Len(sessions[sid].clients) = 2
       /\ Len(sessions[sid].participants) = 3
       /\ sessions[sid].director \in Conns
       /\ Sent(sessions[sid].director, "director")

\* the step is the close event of connection c
CloseStep(c) == rs[c] # "closed" /\ lastEv'.op = "close" /\ lastEv'.c = c

\* C3: when the director of a session closes and another open connection
\* remains in the session, the same close event gives the director slot to a
\* still-connected member and delivers {type: role, role: director} to it.
C3_DirectorClosePromotesOpen ==
  [][\A c \in Conns :
       (/\ CloseStep(c)
        /\ wsSid[c] \in DOMAIN sessions
        /\ sessions[wsSid[c]].director = c
        /\ \E d \in SeqSet(sessions[wsSid[c]].clients) \ {c} : rs[d] = "open")
       => /\ wsSid[c] \in DOMAIN sessions'
          /\ LET nd == sessions'[wsSid[c]].director
             IN /\ nd # NoConn
                /\ InSeq(nd, sessions'[wsSid[c]].clients)
                /\ rs'[nd] = "open"
                /\ \E i \in 1..Len(sent') : IsRole(sent'[i], nd, "director")]_vars

\* C4: a session id is in the registry exactly when a connection that joined it
\* (a member of its connection set) has not yet closed; a join that creates the
\* session finds a participant map holding the joiner alone.
C4_RegistryIffLiveMember ==
  /\ \A sid \in DOMAIN sessions :
       \E c \in SeqSet(sessions[sid].clients) : rs[c] # "closed"
  /\ \A c \in Conns :
       (rs[c] # "closed" /\ wsSid[c] # Undefined) => wsSid[c] \in DOMAIN sessions

\* C5: every participant record with connected = TRUE belongs to exactly one
\* connection that is not closed, is in the session's connection set and whose
\* current id is the record's id.
C5_ConnectedHasLiveConnection ==
  \A sid \in DOMAIN sessions :
    \A i \in 1..Len(sessions[sid].participants) :
      sessions[sid].participants[i].connected =>
        Cardinality({c \in SeqSet(sessions[sid].clients) :
                       rs[c] # "closed" /\ wsId[c] = sessions[sid].participants[i].id}) = 1

\* the step handles a join message whose password the configured one rejects
BadJoinStep ==
  /\ lastEv'.op = "message"
  /\ lastEv'.msg.parse = "object"
  /\ lastEv'.msg.type = "join"
  /\ RELAY_PASSWORD # ""
  /\ lastEv'.msg.password # RELAY_PASSWORD

CloseFrame(c) == [to |-> c, msg |-> [type |-> "close", code |-> 1008]]

\* C6: with a relay password configured, a join whose password is missing or
\* different closes the connection with code 1008 and changes nothing else: the
\* registry (sessions, connection sets, participants, directors) and every
\* connection's id, session and name stay as they were, and no frame other than
\* the close frame is sent.
C6_BadPasswordOnlyCloses ==
  [][BadJoinStep =>
       /\ sessions' = sessions
       /\ wsId' = wsId /\ wsSid' = wsSid /\ wsName' = wsName /\ nextId' = nextId
       /\ rs'[lastEv'.c] = "closing"
       /\ \A d \in Conns \ {lastEv'.c} : rs'[d] = rs[d]
       /\ sent' = IF rs[lastEv'.c] = "open" THEN <<CloseFrame(lastEv'.c)>> ELSE <<>>]_vars

\* C6 witness: a connection that had joined a session sent a join with a bad
\* password and was closed with code 1008; its session is still in the registry.
C6_Witness ==
  /\ lastEv.op = "message"
  /\ lastEv.msg.type = "join"
  /\ RELAY_PASSWORD # ""
  /\ lastEv.msg.password # RELAY_PASSWORD
  /\ rs[lastEv.c] = "closing"
  /\ sent = <<CloseFrame(lastEv.c)>>
  /\ wsSid[lastEv.c] \in DOMAIN sessions
  /\ InSeq(lastEv.c, sessions[wsSid[lastEv.c]].clients)

\* the step handles a frame on connection c that is not a join message
NonJoinStep(c) ==
  /\ lastEv'.op = "message"
  /\ lastEv'.c = c
  /\ ~(lastEv'.msg.parse = "object" /\ lastEv'.msg.type = "join")

IsPing(raw) == raw.parse = "object" /\ raw.type \in {"ping", "system/ping"}

RegistryUnchanged ==
  /\ sessions' = sessions /\ rs' = rs
  /\ wsId' = wsId /\ wsSid' = wsSid /\ wsName' = wsName /\ nextId' = nextId

\* C7 as stated: on a connection with no session every frame other than a join
\* is dropped: nothing is sent and no state changes.
C7_UnjoinedAllDropped ==
  [][\A c \in Conns :
       (NonJoinStep(c) /\ wsSid[c] = Undefined)
       => (sent' = <<>> /\ RegistryUnchanged)]_vars

\* C7 amended: on a connection with no session every frame other than a join
\* changes no state; ping and system/ping send the matching pong to the sender
\* alone (delivered when its socket is open), every other frame sends nothing.
C7_UnjoinedDroppedButPing ==
  [][\A c \in Conns :
       (NonJoinStep(c) /\ wsSid[c] = Undefined)
       => /\ RegistryUnchanged
          /\ sent' =
               IF IsPing(lastEv'.msg) /\ rs[c] = "open"
               THEN <<[to |-> c,
                       msg |-> [type |-> IF lastEv'.msg.type = "ping"
                                         THEN "pong" ELSE "system/pong",
                                tServer |-> "now"]]>>
               ELSE <<>>]_vars

\* C7 witness: a connection without a session sent a pass-through event while
\* the "default" session had an open member, and nothing was sent.
C7_Witness ==
  /\ lastEv.op = "message"
  /\ lastEv.msg.parse = "object"
  /\ lastEv.msg.type \in PassThroughTypes
  /\ wsSid[lastEv.c] = Undefined
  /\ sent = <<>>
  /\ "default" \in DOMAIN sessions
  /\ \E d \in SeqSet(sessions["default"].clients) : rs[d] = "open"

\* the last event relayed a telemetry or pass-through message of a joined connection
RelayedState ==
  /\ lastEv.op = "message"
  /\ lastEv.msg.parse = "object"
  /\ lastEv.msg.type \in {"telemetry"} \cup PassThroughTypes
  /\ wsSid[lastEv.c] # Undefined

\* C8: a telemetry or pass-through message of a joined connection reaches, with
\* the sender's current id and name, every open member of the sender's session
\* (the sender too) and no connection that is a member of another session.
C8_RelayWithinSession ==
  RelayedState =>
    LET c == lastEv.c
        sid == wsSid[c]
    IN /\ sid \in DOMAIN sessions
       /\ \A d \in SeqSet(sessions[sid].clients) :
            rs[d] = "open" =>
              \E i \in 1..Len(sent) :
                /\ sent[i].to = d
                /\ sent[i].msg.type = lastEv.msg.type
                /\ sent[i].msg.from = wsId[c]
                /\ sent[i].msg.name = wsName[c]
       /\ rs[c] = "open" => \E i \in 1..Len(sent) : sent[i].to = c
       /\ \A i \in 1..Len(sent) :
            \A other \in DOMAIN sessions \ {sid} :
              ~InSeq(sent[i].to, sessions[other].clients)

\* the last event relayed a telemetry message
TelemetryState ==
  /\ lastEv.op = "message"
  /\ lastEv.msg.parse = "object"
  /\ lastEv.msg.type = "telemetry"

\* x is present and coerces to a number
Numeric(x) == x # Undef /\ ToNumber(x).t = "number"
\* the number x coerces to, or the fallback when x is absent or not numeric
NumberOr(x, fallback) == IF Numeric(x) THEN ToNumber(x) ELSE Num(fallback)

\* C9: the relayed note has on = the boolean value of the input on, note and vel
\* = the input as a number or 0 when absent or not numeric, and chIn = the input
\* as a number whenever chIn is present (0 included), left out only when absent.
C9_NoteNormalised ==
  (TelemetryState /\ lastEv.msg.note.obj) =>
    \A i \in 1..Len(sent) :
      LET o == sent[i].msg.note
          n == lastEv.msg.note
      IN /\ o.present
         /\ o.on = Truthy(n.on)
         /\ o.note = NumberOr(n.note, 0)
         /\ o.vel = NumberOr(n.vel, 0)
         /\ o.chIn = IF n.chIn = Undef THEN Undef ELSE Stringify(ToNumber(n.chIn))

\* C10: the relayed cc has channel, cc and value = the input as a number whenever
\* it is present and numeric (0 included) and the fallback 1, 11, 0 only when the
\* input is absent or not numeric.
C10_CcNormalised ==
  (TelemetryState /\ lastEv.msg.cc.obj) =>
    \A i \in 1..Len(sent) :
      LET o == sent[i].msg.cc
          n == lastEv.msg.cc
      IN /\ o.present
         /\ o.channel = NumberOr(n.channel, 1)
         /\ o.cc = NumberOr(n.cc, 11)
         /\ o.value = NumberOr(n.value, 0)

\* ------------------------------------------------------------ C11
\* the disconnect path has run for c: c is in no connection set of its session and
\* the participant record under its id shows connected = false
Disconnected(c) ==
  /\ rs[c] = "closed"
  /\ wsSid[c] \in DOMAIN sessions =>
       /\ ~InSeq(c, sessions[wsSid[c]].clients)
       /\ \A i \in DOMAIN sessions[wsSid[c]].participants :
            sessions[wsSid[c]].participants[i].id = wsId[c] =>
              ~sessions[wsSid[c]].participants[i].connected

TerminatedByMonitor(c) == lastEv.op = "tick" /\ c \in lastEv.msg.terminated

\* C11: a connection that has let two heartbeat ticks pass without answering is
\* terminated (no later than the second tick); a connection terminated by the
\* monitor eventually has its disconnect path run, and a closed connection stays
\* out of its session's connection set with its record disconnected; a tick
\* never terminates a connection that answered since the tick before.
C11_HeartbeatTerminates ==
  /\ [](\A c \in Conns : missed[c] >= 2 => rs[c] \in {"dead", "closed"})
  /\ \A c \in Conns : TerminatedByMonitor(c) ~> Disconnected(c)
  /\ [](\A c \in Conns : rs[c] = "closed" => Disconnected(c))
  /\ [][\A c \in Conns :
          lastEv'.op = "tick" /\ missed[c] = 0 => rs'[c] = rs[c]]_vars

\* the second tick after a joined connection stopped answering terminates it
C11_Witness ==
  \E c \in Conns :
    /\ TerminatedByMonitor(c)
    /\ missed[c] = 2
    /\ wsSid[c] \in DOMAIN sessions
    /\ InSeq(c, sessions[wsSid[c]].clients)

\* ------------------------------------------------------------ C12
\* the step is a successful join of c: join drew a fresh id for it
JoinStep(c) == nextId' = nextId + 1 /\ wsId'[c] = nextId'

\* the presence frames of f sent to c
PresenceTo(f, c) == {i \in 1..Len(f) : f[i].to = c /\ f[i].msg.type = "presence"}

\* roster q lists the participants of roster p, in p's order, before any other
ExtendsRoster(p, q) ==
  /\ Len(p) <= Len(q)
  /\ \A i \in 1..Len(p) : q[i].id = p[i].id /\ q[i].name = p[i].name

ListsConnected(roster, id) ==
  \E i \in 1..Len(roster) : roster[i].id = id /\ roster[i].connected

\* C12: joins to the same session id, in either order, work on one session
\* object: the join of an open connection c new to the relay appends c and its
\* record to what the earlier joins left under that id (nothing when the id is
\* unseen), and c and every open member d of the session receive one presence
\* roster, the new participant list, which lists c and d with connected = true;
\* every roster sent is the list of its session after the event, and the list of
\* a session only ever extends, in order, the list it was before.
C12_ConcurrentJoins ==
  /\ [][\A c \in Conns :
          (JoinStep(c) /\ wsSid[c] = Undefined /\ rs[c] = "open") =>
            LET sid == wsSid'[c]
                old == IF sid \in DOMAIN sessions THEN sessions[sid] ELSE NewSession
                me == [id |-> wsId'[c], name |-> wsName'[c], connected |-> TRUE]
            IN /\ sid \in DOMAIN sessions'
               /\ sessions'[sid].clients = Append(old.clients, c)
               /\ sessions'[sid].participants = Append(old.participants, me)
               /\ \A d \in SeqSet(sessions'[sid].clients) :
                    (rs[d] = "open" /\ wsSid'[d] = sid) =>
                      /\ Cardinality(PresenceTo(sent', d)) = 1
                      /\ \A i \in PresenceTo(sent', d) :
                           /\ sent'[i].msg.sessionId = sid
                           /\ sent'[i].msg.participants = sessions'[sid].participants
                           /\ ListsConnected(sent'[i].msg.participants, wsId'[c])
                           /\ ListsConnected(sent'[i].msg.participants, wsId'[d])]_vars
  /\ [][/\ \A sid \in DOMAIN sessions \cap DOMAIN sessions' :
            ExtendsRoster(sessions[sid].participants, sessions'[sid].participants)
        /\ \A i \in 1..Len(sent') :
            (sent'[i].msg.type = "presence" /\ sent'[i].msg.sessionId \in DOMAIN sessions') =>
              sent'[i].msg.participants =
                sessions'[sent'[i].msg.sessionId].participants]_vars

\* the second connection joined first, the first one just joined the same new
\* session, and both received the roster of the two
C12_Witness ==
  /\ nextId = 2
  /\ lastEv.op = "message" /\ lastEv.c = 1 /\ lastEv.msg.type = "join"
  /\ wsSid[1] \in DOMAIN sessions
  /\ sessions[wsSid[1]].clients = <<2, 1>>
  /\ rs[1] = "open" /\ rs[2] = "open"
  /\ \A d \in {1, 2} :
       \E i \in PresenceTo(sent, d) :
         /\ Len(sent[i].msg.participants) = 2
         /\ ListsConnected(sent[i].msg.participants, wsId[1])
         /\ ListsConnected(sent[i].msg.participants, wsId[2])

\* ------------------------------------------------------------ C13
ListsDisconnected(roster, id) ==
  \E i \in 1..Len(roster) : roster[i].id = id /\ ~roster[i].connected

\* every open connection of session sid is sent, by the step, a presence frame
\* carrying the whole participant list of the session
RosterBroadcast(sid) ==
  \A d \in SeqSet(sessions'[sid].clients) :
    rs'[d] = "open" =>
      \E i \in PresenceTo(sent', d) :
        /\ sent'[i].msg.sessionId = sid
        /\ sent'[i].msg.participants = sessions'[sid].participants

\* C13: every successful join, and every close that leaves the session in the
\* registry, sends each open connection of the session a presence frame with the
\* whole participant list in insertion order; after a join the list has the
\* joiner connected, after a close it still has the departed participant, with
\* connected = false.
C13_PresenceAfterJoinAndClose ==
  [][\A c \in Conns :
       /\ JoinStep(c) =>
            /\ wsSid'[c] \in DOMAIN sessions'
            /\ RosterBroadcast(wsSid'[c])
            /\ ListsConnected(sessions'[wsSid'[c]].participants, wsId'[c])
       /\ (CloseStep(c) /\ wsSid[c] \in DOMAIN sessions /\ wsSid[c] \in DOMAIN sessions') =>
            /\ RosterBroadcast(wsSid[c])
            /\ ExtendsRoster(sessions[wsSid[c]].participants,
                             sessions'[wsSid[c]].participants)
            /\ ListsDisconnected(sessions'[wsSid[c]].participants, wsId[c])]_vars

\* a close left an open member behind, which was sent the roster with the
\* departed participant disconnected
C13_Witness ==
  /\ lastEv.op = "close"
  /\ wsSid[lastEv.c] \in DOMAIN sessions
  /\ \E d \in SeqSet(sessions[wsSid[lastEv.c]].clients) :
       /\ rs[d] = "open"
       /\ \E i \in PresenceTo(sent, d) :
            /\ sent[i].msg.participants = sessions[wsSid[lastEv.c]].participants
            /\ ListsDisconnected(sent[i].msg.participants, wsId[lastEv.c])
            /\ ListsConnected(sent[i].msg.participants, wsId[d])

\* ------------------------------------------------------------ C14
\* the step is a successful join of c whose role hint is director or host
DirectorJoinStep(c) ==
  /\ JoinStep(c)
  /\ lastEv'.op = "message" /\ lastEv'.c = c
  /\ lastEv'.msg.role \in {"director", "host"}

\* the director of the session c joins, before the join (NoConn when the
\* session is new)
PriorDirector(c) ==
  IF wsSid'[c] \in DOMAIN sessions THEN sessions[wsSid'[c]].director ELSE NoConn

FramesTo(f, c) == {i \in 1..Len(f) : f[i].to = c}
RoleFramesTo(f, c) == {i \in 1..Len(f) : f[i].to = c /\ f[i].msg.type = "role"}

\* C14 as stated: a successful join with role hint director or host makes the
\* joiner the director of the session, whoever held the slot before, and sends
\* it role: director (delivered when its socket is open); no frame at all is
\* sent to the displaced director.
C14_DirectorJoinNothingToDisplaced ==
  [][\A c \in Conns :
       DirectorJoinStep(c) =>
         /\ sessions'[wsSid'[c]].director = c
         /\ rs[c] = "open" => \E i \in 1..Len(sent') : IsRole(sent'[i], c, "director")
         /\ PriorDirector(c) \notin {NoConn, c} =>
              FramesTo(sent', PriorDirector(c)) = {}]_vars

\* C14: a successful join with role hint director or host makes the joiner the
\* director of the session, whoever held the slot before, and sends it
\* role: director (delivered when its socket is open); the displaced director is
\* sent no role frame: the presence roster of the join is all it receives.
C14_DirectorJoinDisplaces ==
  [][\A c \in Conns :
       DirectorJoinStep(c) =>
         /\ sessions'[wsSid'[c]].director = c
         /\ rs[c] = "open" => \E i \in 1..Len(sent') : IsRole(sent'[i], c, "director")
         /\ PriorDirector(c) \notin {NoConn, c} =>
              /\ RoleFramesTo(sent', PriorDirector(c)) = {}
              /\ \A i \in FramesTo(sent', PriorDirector(c)) :
                   sent'[i].msg = presenceMsg(wsSid'[c], sessions'[wsSid'[c]])]_vars

\* connection 1 joined first and held the slot; connection 2 then joined with a
\* director hint, took the slot and was told so; 1 received the roster only
C14_Witness ==
  /\ nextId = 2
  /\ lastEv.op = "message" /\ lastEv.c = 2 /\ lastEv.msg.type = "join"
  /\ lastEv.msg.role \in {"director", "host"}
  /\ wsSid[2] \in DOMAIN sessions
  /\ sessions[wsSid[2]].clients = <<1, 2>>
  /\ sessions[wsSid[2]].director = 2
  /\ Sent(2, "director")
  /\ rs[1] = "open"
  /\ PresenceTo(sent, 1) # {} /\ RoleFramesTo(sent, 1) = {}

\* ------------------------------------------------------------ C15
\* the sessions whose connection set holds c
MemberOf(c) == {sid \in DOMAIN sessions : InSeq(c, sessions[sid].clients)}

\* C15: every connection is in the connection set of at most one session, that
\* session stays the same from the connection's join until its close, and a
\* closed connection is in no connection set.
C15_OneSessionForLife ==
  /\ [](\A c \in Conns :
          /\ Cardinality(MemberOf(c)) <= 1
          /\ rs[c] = "closed" => MemberOf(c) = {})
  /\ [][\A c \in Conns :
          (MemberOf(c) # {} /\ rs'[c] # "closed") => MemberOf(c)' = MemberOf(c)]_vars

\* ------------------------------------------------------------ C16
\* the step handles a join frame received on c
JoinFrameStep(c) ==
  /\ lastEv'.op = "message" /\ lastEv'.c = c
  /\ lastEv'.msg.parse = "object" /\ lastEv'.msg.type = "join"

\* C16: a join frame on a connection that has already joined is ignored: the
\* registry with every session's connection set, director and participants, and
\* the id, session and name of every connection, stay as they were.
C16_DuplicateJoinIgnored ==
  [][\A c \in Conns :
       (JoinFrameStep(c) /\ wsSid[c] # Undefined) =>
         /\ sessions' = sessions
         /\ wsId' = wsId /\ wsSid' = wsSid /\ wsName' = wsName]_vars

\* ------------------------------------------------------------ C17
\* C17: every successful join (of a connection whose socket is open, whatever it
\* and the session did before) sends the joiner exactly one role frame, ahead of
\* the presence frames of that join, and the role is director exactly when the
\* joiner holds the director slot of the session after the join.
C17_OneRoleBeforePresence ==
  [][\A c \in Conns :
       (JoinStep(c) /\ rs[c] = "open") =>
         /\ Cardinality(RoleFramesTo(sent', c)) = 1
         /\ \A i \in RoleFramesTo(sent', c) :
              /\ \A j \in 1..Len(sent') : sent'[j].msg.type = "presence" => i < j
              /\ sent'[i].msg.role =
                   IF sessions'[wsSid'[c]].director = c THEN "director"
                   ELSE "performer"]_vars

\* ------------------------------------------------------------ C18
\* the members of a connection set whose socket is open after the step, in
\* insertion order
StillConnected(cs) == SelectSeq(cs, LAMBDA d : rs'[d] = "open")

\* the election of the step, run on the connection set cs of session sid, promoted
\* the earliest-inserted connected member and told it so; with no member left
\* nothing was sent and the session has no director
ElectionPromotesEarliest(sid, cs) ==
  /\ StillConnected(cs) # <<>> =>
       /\ sid \in DOMAIN sessions'
       /\ sessions'[sid].director = Head(StillConnected(cs))
       /\ \E i \in 1..Len(sent') : IsRole(sent'[i], Head(StillConnected(cs)), "director")
  /\ cs = <<>> =>
       /\ sent' = <<>>
       /\ sid \in DOMAIN sessions' => sessions'[sid].director = NoConn

\* C18: whenever the election runs on a session without a director (a join
\* without a director hint into a session with no director, the close of the
\* director), it promotes the earliest-inserted of the connections still
\* connected and sends it role: director; when no connection remains the
\* director stays unset and nothing is sent.
C18_ElectionPromotesEarliestConnected ==
  [][\A c \in Conns :
       /\ (JoinStep(c) /\ PriorDirector(c) = NoConn /\ ~DirectorJoinStep(c)) =>
            ElectionPromotesEarliest(wsSid'[c], sessions'[wsSid'[c]].clients)
       /\ (/\ CloseStep(c)
           /\ wsSid[c] \in DOMAIN sessions
           /\ sessions[wsSid[c]].director = c) =>
            ElectionPromotesEarliest(wsSid[c], SetDelete(sessions[wsSid[c]].clients, c))]_vars

\* ------------------------------------------------------------ C19
\* the case labels of the router's switch
RecognizedTypes ==
  {"join", "telemetry", "midi/cc", "midi/note_on", "midi/note_off",
   "gesture/update", "percussion/trigger", "envelope/update", "mode/change",
   "system/ping", "ping"}

Unrecognized(raw) == raw.parse # "object" \/ raw.type \notin RecognizedTypes

SessionStateUnchanged ==
  sessions' = sessions /\ wsId' = wsId /\ wsSid' = wsSid /\ wsName' = wsName

PongOf(raw) ==
  [type |-> IF raw.type = "ping" THEN "pong" ELSE "system/pong", tServer |-> "now"]

\* C19: only a join frame and a close event change session state. A frame that
\* is unparseable, no object or of an unrecognized or missing type sends nothing
\* and leaves the registry as it was; a telemetry, pass-through, ping or
\* system/ping frame leaves the registry with every session's connection set,
\* director and participants as it was; ping and system/ping send one reply,
\* pong and system/pong, to the sender and nobody else (nothing goes out through
\* a socket that is no longer open).
C19_OnlyJoinAndCloseChangeSessions ==
  [][/\ ~SessionStateUnchanged =>
          \/ lastEv'.op = "close"
          \/ \E c \in Conns : JoinFrameStep(c)
     /\ \A c \in Conns :
          NonJoinStep(c) =>
            /\ RegistryUnchanged
            /\ Unrecognized(lastEv'.msg) => sent' = <<>>
            /\ IsPing(lastEv'.msg) =>
                 sent' = IF rs[c] = "open"
                         THEN <<[to |-> c, msg |-> PongOf(lastEv'.msg)]>>
                         ELSE <<>>]_vars

\* a member of a session of two was answered system/pong, alone
C19_Witness ==
  /\ lastEv.op = "message" /\ IsPing(lastEv.msg) /\ lastEv.msg.type = "system/ping"
  /\ wsSid[lastEv.c] \in DOMAIN sessions
  /\ Len(sessions[wsSid[lastEv.c]].clients) = 2
  /\ \A d \in SeqSet(sessions[wsSid[lastEv.c]].clients) : rs[d] = "open"
  /\ sent = <<[to |-> lastEv.c, msg |-> [type |-> "system/pong", tServer |-> "now"]]>>

\* ------------------------------------------------------------ C20
\* the step put d in the director slot of session sid
SlotSet(sid, d) ==
  /\ sid \in DOMAIN sessions'
  /\ sessions'[sid].director = d
  /\ d # NoConn
  /\ sid \in DOMAIN sessions => sessions[sid].director # d

\* C20: the connection in the director slot of a session is one whose last role
\* frame said director, and every step that puts a connection in a director slot
\* (a join with a director hint, the election of a join, the election after the
\* director's close) sends it role: director in the same event.
C20_DirectorWasToldDirector ==
  /\ [](\A sid \in DOMAIN sessions :
          sessions[sid].director # NoConn =>
            lastRole[sessions[sid].director] = "director")
  /\ [][\A d \in Conns : \A sid \in DOMAIN sessions' :
          SlotSet(sid, d) => \E i \in 1..Len(sent') : IsRole(sent'[i], d, "director")]_vars

====
